---- MODULE Spec2Model ----
(***************************************************************************)
(* Locale resolution / translation lookup (the i18n module: languages,     *)
(* defaultLang, ui, getLangFromUrl, useTranslations) and content           *)
(* collection validation (the zod schemas of the content config) of the   *)
(* UOS project site.                                                       *)
(*                                                                         *)
(* JavaScript values are records [kind, val]; non-ASCII text of the source *)
(* is written with \uXXXX escapes.                                         *)
(***************************************************************************)
EXTENDS Integers, Sequences, FiniteSets, TLC

VARIABLES
  ui,          \* the translation table read by getLangFromUrl and t
  url,         \* pathname of the request URL, as a sequence of tokens
  resolved,    \* value returned by getLangFromUrl(url), Undefined before the call
  tLang,       \* lang captured by the closure t, Undefined before useTranslations
  key,         \* argument of the last call of t, Undefined before the first
  result,      \* completion value of the last call of t
  calls,       \* the calls of each concurrent caller: its position, inputs and results
  collection,  \* name of the collection being loaded
  raw,         \* front-matter of the discovered documents, in discovery order
  records,     \* entries produced by the load
  errors,      \* validation errors reported by the load
  loaded,      \* TRUE once the collection has been loaded
  again        \* outcome of a second load of the same input

vars == <<ui, url, resolved, tLang, key, result, calls, collection, raw, records, errors, loaded, again>>

localeVars == <<ui, url, resolved, tLang, key, result, calls>>

contentVars == <<collection, raw, records, errors, loaded, again>>

(***************************************************************************)
(* JavaScript values                                                       *)
(***************************************************************************)
Undefined == [kind |-> "undefined", val |-> ""]

Null == [kind |-> "null", val |-> ""]

JSString(s) == [kind |-> "string", val |-> s]

JSDate(d) == [kind |-> "date", val |-> d]

JSNumber(n) == [kind |-> "number", val |-> n]

\* an object or function reached through Object.prototype, named by its property
Builtin(name) == [kind |-> "object", val |-> name]

\* an abrupt completion: the exception thrown
Throw(name) == [kind |-> "throw", val |-> name]

\* ToBoolean, the test of the || operator
ToBoolean(v) ==
  CASE v.kind = "undefined" -> FALSE
    [] v.kind = "null" -> FALSE
    [] v.kind = "string" -> v.val # ""
    [] v.kind = "number" -> v.val # "0"
    [] OTHER -> TRUE

\* ToPropertyKey of a string or undefined
ToPropertyKey(v) == IF v.kind = "undefined" THEN "undefined" ELSE v.val

\* property names every object literal inherits from Object.prototype
ObjectPrototypeKeys ==
  {"constructor", "__proto__", "hasOwnProperty", "isPrototypeOf",
   "propertyIsEnumerable", "toLocaleString", "toString", "valueOf",
   "__defineGetter__", "__defineSetter__", "__lookupGetter__", "__lookupSetter__"}

(***************************************************************************)
(* The locale table                                                        *)
(***************************************************************************)
languages == ("zh" :> "\\u4e2d\\u6587") @@ ("en" :> "English")

\* a default language that is not a key of languages and ui
defaultLang_Unsupported == "cn"

defaultLang == "zh"

SupportedLangs == DOMAIN languages

ui_zh ==
     ("nav.home" :> "\\u9996\\u9875")
  @@ ("nav.about" :> "\\u5173\\u4e8e\\u9879\\u76ee")
  @@ ("nav.team" :> "\\u7814\\u7a76\\u56e2\\u961f")
  @@ ("nav.news" :> "\\u65b0\\u95fb\\u52a8\\u6001")
  @@ ("nav.contact" :> "\\u8054\\u7cfb\\u6211\\u4eec")
  @@ ("footer.copyright" :> "\\u7248\\u6743\\u6240\\u6709")
  @@ ("footer.all_rights_reserved" :> "\\u4fdd\\u7559\\u6240\\u6709\\u6743\\u5229")
  @@ ("home.hero.title" :> "UOS")
  @@ ("home.hero.subtitle" :> "\\u9762\\u5411\\u7535\\u529b\\u4fe1\\u606f\\u573a\\u666f\\u7684\\u4eba\\u673a\\u7269\\u878d\\u5408\\u64cd\\u4f5c\\u7cfb\\u7edf")
  @@ ("home.hero.description" :> "\\u5de5\\u4e1a\\u4e92\\u8054\\u7f51\\u8f6f\\u4ef6\\u5e73\\u53f0\\u53d1\\u5c55\\u7684\\u65b0\\u9636\\u6bb5")
  @@ ("home.features.title" :> "\\u6838\\u5fc3\\u7279\\u70b9")
  @@ ("home.features.ubiquitous.title" :> "\\u6cdb\\u5728\\u4e92\\u8054")
  @@ ("home.features.ubiquitous.desc" :> "\\u652f\\u6301\\u5168\\u751f\\u4ea7\\u8981\\u7d20\\u7684\\u6709\\u5e8f\\u4e92\\u52a8")
  @@ ("home.features.software.title" :> "\\u8f6f\\u4ef6\\u5b9a\\u4e49")
  @@ ("home.features.software.desc" :> "\\u4ee5\\u8f6f\\u4ef6\\u9a7e\\u9a6d\\u7cfb\\u7edf\\u590d\\u6742\\u6027")
  @@ ("home.features.intelligent.title" :> "\\u667a\\u80fd\\u9a71\\u52a8")
  @@ ("home.features.intelligent.desc" :> "\\u5b9e\\u73b0\\u667a\\u80fd\\u5316\\u7ba1\\u63a7\\u7684\\u8d44\\u6e90\\u7ba1\\u7406")
  @@ ("about.title" :> "\\u5173\\u4e8e\\u9879\\u76ee")
  @@ ("team.title" :> "\\u7814\\u7a76\\u56e2\\u961f")
  @@ ("news.title" :> "\\u65b0\\u95fb\\u52a8\\u6001")
  @@ ("news.read_more" :> "\\u9605\\u8bfb\\u66f4\\u591a")
  @@ ("news.back" :> "\\u8fd4\\u56de\\u65b0\\u95fb\\u5217\\u8868")
  @@ ("contact.title" :> "\\u8054\\u7cfb\\u6211\\u4eec")
  @@ ("contact.email" :> "\\u90ae\\u7bb1")
  @@ ("contact.address" :> "\\u5730\\u5740")
  @@ ("contact.phone" :> "\\u7535\\u8bdd")

ui_en ==
     ("nav.home" :> "Home")
  @@ ("nav.about" :> "About")
  @@ ("nav.team" :> "Team")
  @@ ("nav.news" :> "News")
  @@ ("nav.contact" :> "Contact")
  @@ ("footer.copyright" :> "Copyright")
  @@ ("footer.all_rights_reserved" :> "All rights reserved")
  @@ ("home.hero.title" :> "UOS")
  @@ ("home.hero.subtitle" :> "Human-Cyber-Physical Convergence Operating System for Power Information Scenarios")
  @@ ("home.hero.description" :> "The New Stage of Industrial Internet Software Platform Development")
  @@ ("home.features.title" :> "Core Features")
  @@ ("home.features.ubiquitous.title" :> "Ubiquitous Connectivity")
  @@ ("home.features.ubiquitous.desc" :> "Supporting orderly interaction of all production elements")
  @@ ("home.features.software.title" :> "Software-Defined")
  @@ ("home.features.software.desc" :> "Controlling system complexity through software")
  @@ ("home.features.intelligent.title" :> "Intelligence-Driven")
  @@ ("home.features.intelligent.desc" :> "Implementing intelligent resource management")
  @@ ("about.title" :> "About the Project")
  @@ ("team.title" :> "Research Team")
  @@ ("news.title" :> "News")
  @@ ("news.read_more" :> "Read More")
  @@ ("news.back" :> "Back to News")
  @@ ("contact.title" :> "Contact Us")
  @@ ("contact.email" :> "Email")
  @@ ("contact.address" :> "Address")
  @@ ("contact.phone" :> "Phone")

\* the table with one entry of en registered as the empty string
ShippedUi_EnEmptyString ==
  ("zh" :> ui_zh) @@ ("en" :> [ui_en EXCEPT !["news.back"] = ""])

\* the table with one key of zh left untranslated in en
ShippedUi_EnIncomplete ==
  ("zh" :> ui_zh) @@ ("en" :> [k \in DOMAIN ui_en \ {"news.back"} |-> ui_en[k]])

ShippedUi == ("zh" :> ui_zh) @@ ("en" :> ui_en)

(***************************************************************************)
(* The site configuration                                                  *)
(***************************************************************************)
\* the i18n option with the default language served under a prefix of its own
i18n_PrefixedDefault ==
  [defaultLocale |-> "zh",
   locales |-> <<"zh", "en">>,
   routing |-> [prefixDefaultLocale |-> TRUE]]

\* defineConfig({ i18n: ... })
i18n ==
  [defaultLocale |-> "zh",
   locales |-> <<"zh", "en">>,
   routing |-> [prefixDefaultLocale |-> FALSE]]

(***************************************************************************)
(* Bounds and input sets                                                   *)
(***************************************************************************)
MaxPathLen == 3

\* words a path segment is made of: the language codes, an unsupported code,
\* an ordinary page name and a name inherited from Object.prototype
PathWords == {"zh", "en", "fr", "about", "constructor"}

PathTokens == PathWords \cup {"/"}

SeqsUpTo(S, n) == UNION {[1..m -> S] : m \in 0..n}

\* URL.pathname of an http(s) URL always starts with "/"
Pathnames == {<<"/">> \o r : r \in SeqsUpTo(PathTokens, MaxPathLen)}

\* keys and strings of the translation tables the lookup is applied to
TKeys == {"nav.home", "nav.about", "constructor"}

TStrings(l) == {"", ShippedUi[l]["nav.home"], ShippedUi[l]["nav.about"]}

TablesOf(l) == UNION {[S -> TStrings(l)] : S \in SUBSET TKeys}

UiTables == {("zh" :> a) @@ ("en" :> b) : a \in TablesOf("zh"), b \in TablesOf("en")}

(***************************************************************************)
(* getLangFromUrl                                                          *)
(***************************************************************************)
RECURSIVE Split(_)
\* pathname.split('/'): the text between the separators, empty pieces kept
Split(p) ==
  IF p = <<>> THEN <<"">>
  ELSE IF Head(p) = "/" THEN <<"">> \o Split(Tail(p))
  ELSE LET r == Split(Tail(p)) IN <<Head(p) \o Head(r)>> \o Tail(r)

\* `name in obj` for an object literal with own properties DOMAIN obj: own and
\* inherited properties both count
In(name, obj) == name \in DOMAIN obj \/ name \in ObjectPrototypeKeys

\* getLangFromUrl reading the last segment of the path
getLangFromUrl_LastSegment(pathname) ==
  LET parts == Split(pathname)
      lang == JSString(parts[Len(parts)])
  IN  IF In(ToPropertyKey(lang), ui) THEN lang ELSE JSString(defaultLang)

getLangFromUrl(pathname) ==
  LET parts == Split(pathname)
      lang == IF Len(parts) >= 2 THEN JSString(parts[2]) ELSE Undefined
  IN  IF In(ToPropertyKey(lang), ui) THEN lang ELSE JSString(defaultLang)

(***************************************************************************)
(* useTranslations                                                         *)
(***************************************************************************)
\* obj[k] for an object literal with own string properties
Get(obj, k) ==
  IF k \in DOMAIN obj THEN JSString(obj[k])
  ELSE IF k \in ObjectPrototypeKeys THEN Builtin(k)
  ELSE Undefined

\* ui[lang][k]; for an inherited ui[lang] only the inherited names are modelled
Member(lang, k) ==
  IF lang \in DOMAIN ui THEN Get(ui[lang], k)
  ELSE IF lang \in ObjectPrototypeKeys
    THEN IF lang = "__proto__" /\ k = "__proto__" THEN Null
         ELSE IF k \in ObjectPrototypeKeys THEN Builtin(k)
         ELSE Undefined
  ELSE Throw("TypeError")

\* t with the key itself as the last fallback
t_ReturnsKey(lang, k) ==
  LET own == Member(lang, k)
      def == Member(defaultLang, k)
  IN  IF own.kind = "throw" THEN own
      ELSE IF ToBoolean(own) THEN own
      ELSE IF ToBoolean(def) THEN def
      ELSE JSString(k)

\* t without the || fallback to the default language
t_NoFallback(lang, k) == Member(lang, k)

\* the closure t returned by useTranslations(lang), applied to k
t(lang, k) ==
  LET own == Member(lang, k)
  IN  IF own.kind = "throw" THEN own
      ELSE IF ToBoolean(own) THEN own
      ELSE Member(defaultLang, k)

(***************************************************************************)
(* Content collections: the zod schemas                                    *)
(***************************************************************************)
ZString == [type |-> "string", optional |-> FALSE, options |-> {}]

ZDate == [type |-> "date", optional |-> FALSE, options |-> {}]

ZEnum(opts) == [type |-> "enum", optional |-> FALSE, options |-> opts]

ZOptional(z) == [z EXCEPT !.optional = TRUE]

ZObject(ks, sh) == [keys |-> ks, shape |-> sh]

\* the news schema with lang restricted to the default language
news_LangDefaultOnly ==
  ZObject(<<"title", "description", "pubDate", "lang">>,
          [title |-> ZString, description |-> ZString, pubDate |-> ZDate,
           lang |-> ZOptional(ZEnum({"zh"}))])

\* config.ts: const news
news ==
  ZObject(<<"title", "description", "pubDate", "lang">>,
          [title |-> ZString, description |-> ZString, pubDate |-> ZDate,
           lang |-> ZOptional(ZString)])

\* config.ts: const docs
docs ==
  ZObject(<<"title", "description", "pubDate", "lang">>,
          [title |-> ZString, description |-> ZString, pubDate |-> ZDate,
           lang |-> ZOptional(ZString)])

\* the other version of the content config: const newsCollection
newsCollection ==
  ZObject(<<"title", "description", "pubDate", "lang", "image">>,
          [title |-> ZString, description |-> ZString, pubDate |-> ZDate,
           lang |-> ZEnum({"zh", "en"}), image |-> ZOptional(ZString)])

\* export const collections, of either version of the content config
collections ==
  [c \in {"config.ts", "part_001"} |->
     IF c = "config.ts" THEN ("news" :> news) @@ ("docs" :> docs)
     ELSE ("news" :> newsCollection)]

CollectionIds ==
  {[config |-> c, name |-> n] : c \in {"config.ts"}, n \in {"news", "docs"}}
    \cup {[config |-> "part_001", name |-> "news"]}

SchemaOf(c) == collections[c.config][c.name]

\* the check of one zod type on a defined value: "ok" or the issue code
ParseType(z, v) ==
  CASE z.type = "string" -> IF v.kind = "string" THEN "ok" ELSE "invalid_type"
    [] z.type = "date" ->
         IF v.kind # "date" THEN "invalid_type"
         ELSE IF v.val = "Invalid Date" THEN "invalid_date"
         ELSE "ok"
    [] z.type = "enum" ->
         IF v.kind # "string" THEN "invalid_type"
         ELSE IF v.val \in z.options THEN "ok"
         ELSE "invalid_enum_value"

\* Parse with every member treated as .optional()
Parse_UndefinedPasses(z, v) ==
  IF v = Undefined THEN "ok" ELSE ParseType(z, v)

\* Parse with .optional() ignored
Parse_OptionalIgnored(z, v) ==
  IF v = Undefined THEN "invalid_type" ELSE ParseType(z, v)

\* the check of one schema member: .optional() lets undefined through
Parse(z, v) ==
  IF v = Undefined
    THEN IF z.optional THEN "ok" ELSE "invalid_type"
    ELSE ParseType(z, v)

RECURSIVE Issues(_, _, _)
\* the issues of the keys i.. of the schema, in declaration order
Issues(schema, data, i) ==
  IF i > Len(schema.keys) THEN <<>>
  ELSE LET k == schema.keys[i]
           code == Parse(schema.shape[k], data[k])
       IN  (IF code = "ok" THEN <<>> ELSE <<[path |-> k, code |-> code]>>)
             \o Issues(schema, data, i + 1)

\* safeParse losing the optional lang of the output
safeParse_DropsLang(schema, data) ==
  LET issues == Issues(schema, data, 1)
  IN  [success |-> issues = <<>>,
       data |-> [k \in DOMAIN schema.shape |-> IF k = "lang" THEN Undefined ELSE data[k]],
       issues |-> issues]

\* z.object(...).safeParse(data): every key is checked, unknown keys are stripped
safeParse(schema, data) ==
  LET issues == Issues(schema, data, 1)
  IN  [success |-> issues = <<>>,
       data |-> [k \in DOMAIN schema.shape |-> data[k]],
       issues |-> issues]

(***************************************************************************)
(* Loading a collection                                                    *)
(***************************************************************************)
RECURSIVE LoadFrom_Reversed(_, _, _)
\* LoadFrom putting each record in front of the ones loaded before it
LoadFrom_Reversed(schema, rawDocuments, i) ==
  IF i > Len(rawDocuments) THEN [records |-> <<>>, errors |-> <<>>]
  ELSE LET parsed == safeParse(schema, rawDocuments[i])
           rest == LoadFrom_Reversed(schema, rawDocuments, i + 1)
       IN  IF parsed.success
             THEN [records |-> rest.records \o <<[id |-> i, data |-> parsed.data]>>,
                   errors |-> rest.errors]
             ELSE [records |-> rest.records,
                   errors |-> rest.errors \o <<[id |-> i, issues |-> parsed.issues]>>]

RECURSIVE LoadFrom(_, _, _)
\* documents i.. of the batch: a record for each valid one, one
\* ValidationError for each invalid one
LoadFrom(schema, rawDocuments, i) ==
  IF i > Len(rawDocuments) THEN [records |-> <<>>, errors |-> <<>>]
  ELSE LET parsed == safeParse(schema, rawDocuments[i])
           rest == LoadFrom(schema, rawDocuments, i + 1)
       IN  IF parsed.success
             THEN [records |-> <<[id |-> i, data |-> parsed.data]>> \o rest.records,
                   errors |-> rest.errors]
             ELSE [records |-> rest.records,
                   errors |-> <<[id |-> i, issues |-> parsed.issues]>> \o rest.errors]

loadCollection(c, rawDocuments) == LoadFrom(SchemaOf(c), rawDocuments, 1)

MaxBatch == 2

TitleVals == {Undefined, JSString("News Title")}

DescriptionVals == {Undefined, JSString("News description")}

PubDateVals == {Undefined, JSDate("2024-01-01"), JSDate("2025-01-10")}

LangVals == {Undefined, JSString("zh"), JSString("en"), JSString("fr")}

ImageVals == {Undefined}

RawDocuments ==
  {[title |-> a, description |-> b, pubDate |-> c, lang |-> d, image |-> e] :
     a \in TitleVals, b \in DescriptionVals, c \in PubDateVals,
     d \in LangVals, e \in ImageVals}

Batches == SeqsUpTo(RawDocuments, MaxBatch)

NotLoadedAgain == [done |-> FALSE, records |-> <<>>, errors |-> <<>>]

\* LoadCollection removing the rejected documents from its input
LoadCollection_PrunesInput ==
  /\ ~loaded
  /\ LET r == loadCollection(collection, raw)
     IN  /\ records' = r.records
         /\ errors' = r.errors
         /\ raw' = [j \in DOMAIN r.records |-> raw[r.records[j].id]]
  /\ loaded' = TRUE
  /\ UNCHANGED <<collection, again, localeVars>>

LoadCollection ==
  /\ ~loaded
  /\ LET r == loadCollection(collection, raw)
     IN  /\ records' = r.records
         /\ errors' = r.errors
  /\ loaded' = TRUE
  /\ UNCHANGED <<collection, raw, again, localeVars>>

\* a second call of loadCollection on the same input
LoadAgain ==
  /\ loaded
  /\ ~again.done
  /\ LET r == loadCollection(collection, raw)
     IN  again' = [done |-> TRUE, records |-> r.records, errors |-> r.errors]
  /\ UNCHANGED <<collection, raw, records, errors, loaded, localeVars>>

(***************************************************************************)
(* Actions of a page render                                                *)
(***************************************************************************)
\* GetLangFromUrl registering the default table under an unknown first segment
GetLangFromUrl_RegistersLang ==
  /\ resolved = Undefined
  /\ resolved' = getLangFromUrl(url)
  /\ LET lang == Split(url)[2]
     IN  ui' = IF lang \in DOMAIN ui THEN ui ELSE (lang :> ui[defaultLang]) @@ ui
  /\ UNCHANGED <<url, tLang, key, result, calls, contentVars>>

GetLangFromUrl ==
  /\ resolved = Undefined
  /\ resolved' = getLangFromUrl(url)
  /\ UNCHANGED <<ui, url, tLang, key, result, calls, contentVars>>

UseTranslations(lang) ==
  /\ tLang = Undefined
  /\ tLang' = JSString(lang)
  /\ UNCHANGED <<ui, url, resolved, key, result, calls, contentVars>>

\* const t = useTranslations(getLangFromUrl(Astro.url))
UseResolved ==
  /\ resolved # Undefined
  /\ UseTranslations(resolved.val)

UseSupported == \E l \in SupportedLangs : UseTranslations(l)

T(k) ==
  /\ tLang # Undefined
  /\ key' = JSString(k)
  /\ result' = t(tLang.val, k)
  /\ UNCHANGED <<ui, url, resolved, tLang, calls, contentVars>>

TShipped == \E k \in DOMAIN ShippedUi[defaultLang] : T(k)

TAny == \E k \in TKeys : T(k)

ContentIdle ==
  /\ collection = [config |-> "config.ts", name |-> "news"]
  /\ raw = <<>>
  /\ records = <<>>
  /\ errors = <<>>
  /\ loaded = FALSE
  /\ again = NotLoadedAgain

\* a request against the shipped table
Init ==
  /\ ui = ShippedUi
  /\ url \in Pathnames
  /\ resolved = Undefined
  /\ tLang = Undefined
  /\ key = Undefined
  /\ result = Undefined
  /\ calls = <<>>
  /\ ContentIdle

Next == GetLangFromUrl \/ UseResolved \/ TShipped

Spec == Init /\ [][Next]_vars

\* the lookup applied to every table over TKeys
InitTranslate ==
  /\ ui \in UiTables
  /\ url = <<"/">>
  /\ resolved = Undefined
  /\ tLang = Undefined
  /\ key = Undefined
  /\ result = Undefined
  /\ calls = <<>>
  /\ ContentIdle

NextTranslate == UseSupported \/ TAny

SpecTranslate == InitTranslate /\ [][NextTranslate]_vars

LocaleIdle ==
  /\ ui = ShippedUi
  /\ url = <<"/">>
  /\ resolved = Undefined
  /\ tLang = Undefined
  /\ key = Undefined
  /\ result = Undefined
  /\ calls = <<>>

\* the load of every batch of every collection
InitLoad ==
  /\ collection \in CollectionIds
  /\ raw \in Batches
  /\ records = <<>>
  /\ errors = <<>>
  /\ loaded = FALSE
  /\ again = NotLoadedAgain
  /\ LocaleIdle

NextLoad == LoadCollection \/ LoadAgain

SpecLoad == InitLoad /\ [][NextLoad]_vars

(***************************************************************************)
(* Claims about translation lookup (SpecTranslate)                         *)
(***************************************************************************)
\* t has been called with key, on a closure made for a supported language
Translated == key # Undefined /\ tLang # Undefined /\ tLang.val \in SupportedLangs

\* C1: whenever the table of the language L has an entry for the key K,
\* useTranslations(L)(K) returns exactly that entry, whatever string it is.
C1_OwnEntryReturned ==
  (Translated /\ key.val \in DOMAIN ui[tLang.val])
    => result = JSString(ui[tLang.val][key.val])

\* C2: when the table of L has no entry for K but the default-language table
\* has one, useTranslations(L)(K) returns the default-language string.
C2_FallsBackToDefault ==
  (Translated /\ key.val \notin DOMAIN ui[tLang.val] /\ key.val \in DOMAIN ui[defaultLang])
    => result = JSString(ui[defaultLang][key.val])

\* C3: when K is registered neither for L nor for the default language, the
\* lookup fails with a MissingTranslationError; it never returns an empty,
\* null or undefined value.
C3_MissingKeyFails ==
  (Translated /\ key.val \notin DOMAIN ui[tLang.val] /\ key.val \notin DOMAIN ui[defaultLang])
    => result = Throw("MissingTranslationError")

(***************************************************************************)
(* Claims about language resolution (Spec)                                 *)
(***************************************************************************)
RECURSIVE FirstNonEmpty(_)
\* the first non-empty piece of a split path, "" when every piece is empty
FirstNonEmpty(parts) ==
  IF parts = <<>> THEN ""
  ELSE IF Head(parts) # "" THEN Head(parts)
  ELSE FirstNonEmpty(Tail(parts))

FirstSegment == FirstNonEmpty(Split(url))

\* C4: when the first non-empty segment of the path is exactly a supported
\* language code, getLangFromUrl returns that code, wherever empty segments
\* precede it.
C4_LanguagePrefixResolved ==
  (resolved # Undefined /\ FirstSegment \in SupportedLangs)
    => resolved = JSString(FirstSegment)

\* C5: when the first non-empty segment of the path is not exactly a
\* supported language code (the root path included), getLangFromUrl returns
\* the default language.
C5_OtherPathsResolveToDefault ==
  (resolved # Undefined /\ FirstSegment \notin SupportedLangs)
    => resolved = JSString(defaultLang)

\* C6: getLangFromUrl returns, for every path and without error, a member of
\* the supported-language set.
C6_ResolvedIsSupported ==
  resolved # Undefined
    => resolved.kind = "string" /\ resolved.val \in SupportedLangs

(***************************************************************************)
(* Claims about collection validation (SpecLoad)                           *)
(***************************************************************************)
RecordIds == {records[j].id : j \in DOMAIN records}

ErrorsOf(i) == {j \in DOMAIN errors : errors[j].id = i}

IsText(v) == v.kind = "string"

IsValidDate(v) == v.kind = "date" /\ v.val # "Invalid Date"

IsSupportedLang(v) == v.kind = "string" /\ v.val \in SupportedLangs

\* C7: a document whose lang is present with a value outside the supported
\* set is rejected with a ValidationError, and no record carries an
\* unsupported lang.
C7_UnsupportedLangRejected ==
  loaded =>
    /\ \A i \in DOMAIN raw :
         (raw[i].lang # Undefined /\ ~IsSupportedLang(raw[i].lang))
           => (i \notin RecordIds /\ ErrorsOf(i) # {})
    /\ \A j \in DOMAIN records :
         records[j].data.lang = Undefined \/ IsSupportedLang(records[j].data.lang)

\* C8: a document with a text title, a text description and a valid pubDate
\* that omits lang is accepted and yields a record.
C8_LangOptional ==
  loaded =>
    \A i \in DOMAIN raw :
      (/\ IsText(raw[i].title)
       /\ IsText(raw[i].description)
       /\ IsValidDate(raw[i].pubDate)
       /\ raw[i].lang = Undefined)
        => i \in RecordIds

RequiredFields == {"title", "description", "pubDate"}

MissingFields(d) == {f \in RequiredFields : d[f] = Undefined}

IssuePaths(e) == {e.issues[n].path : n \in DOMAIN e.issues}

\* C9: a document missing title, description or pubDate is excluded from the
\* result, and exactly one ValidationError is reported for it, which names
\* the missing field.
C9_MissingFieldReported ==
  loaded =>
    \A i \in DOMAIN raw :
      MissingFields(raw[i]) # {}
        => /\ i \notin RecordIds
           /\ Cardinality(ErrorsOf(i)) = 1
           /\ \A j \in ErrorsOf(i) : MissingFields(raw[i]) \subseteq IssuePaths(errors[j])

\* a malformed document sits next to a well-formed one, and the load has
\* dropped the one and kept the other
C9_Witness ==
  /\ loaded
  /\ Len(raw) = 2
  /\ MissingFields(raw[1]) = {"pubDate"}
  /\ errors = <<[id |-> 1, issues |-> <<[path |-> "pubDate", code |-> "invalid_type"]>>]>>
  /\ RecordIds = {2}

\* every front-matter field has the type the collection's schema declares
WellFormed(c, d) ==
  \A k \in DOMAIN SchemaOf(c).shape :
    LET z == SchemaOf(c).shape[k]
    IN  IF d[k] = Undefined THEN z.optional ELSE ParseType(z, d[k]) = "ok"

C11_RecordsSatisfySchema ==
  loaded =>
    \A j \in DOMAIN records :
      /\ IsText(records[j].data.title)
      /\ IsText(records[j].data.description)
      /\ IsValidDate(records[j].data.pubDate)
      /\ (records[j].data.lang = Undefined \/ IsSupportedLang(records[j].data.lang))


(***************************************************************************)
(* Validation of one document, over every kind of front-matter value       *)
(***************************************************************************)
\* YAML values of the front-matter: text, a number, an unquoted date (a
\* Date), a quoted date or other text (a string), an empty value (null)
AnyTitleVals == {Undefined, JSString("News Title"), JSString(""), JSNumber("42")}

AnyDescriptionVals == {Undefined, JSString("News description"), JSNumber("42")}

AnyPubDateVals ==
  {Undefined, JSDate("2024-01-01"), JSString("2024-01-01"), JSString("soon")}

AnyLangVals == {Undefined, Null, JSString("zh"), JSString("en"), JSString("fr")}

AnyImageVals == {Undefined, JSString("/images/launch.png")}

AnyDocuments ==
  {[title |-> a, description |-> b, pubDate |-> c, lang |-> d, image |-> e] :
     a \in AnyTitleVals, b \in AnyDescriptionVals, c \in AnyPubDateVals,
     d \in AnyLangVals, e \in AnyImageVals}

\* the load of every collection holding one document
InitValidate ==
  /\ collection \in CollectionIds
  /\ raw \in {<<d>> : d \in AnyDocuments}
  /\ records = <<>>
  /\ errors = <<>>
  /\ loaded = FALSE
  /\ again = NotLoadedAgain
  /\ LocaleIdle

SpecValidate == InitValidate /\ [][NextLoad]_vars

\* C12: every accepted record has a non-empty title: a document whose title
\* is the empty string is rejected.
C12_EmptyTitleRejected ==
  loaded =>
    /\ \A i \in DOMAIN raw : raw[i].title = JSString("") => i \notin RecordIds
    /\ \A j \in DOMAIN records : records[j].data.title # JSString("")


\* text that Date can parse
ParseableDateTexts == {"2024-01-01"}

IsParseableDate(v) ==
  IsValidDate(v) \/ (v.kind = "string" /\ v.val \in ParseableDateTexts)

\* fields of the document that are present with the wrong type
WrongTypeFields(d) ==
  {f \in {"title", "description"} : d[f] # Undefined /\ ~IsText(d[f])}
    \cup {f \in {"pubDate"} : d[f] # Undefined /\ ~IsParseableDate(d[f])}

\* C13 (first half): a document in which a required field has the wrong
\* type is rejected with a ValidationError naming the document and the field.
WrongTypeRejected ==
  loaded =>
    \A i \in DOMAIN raw :
      WrongTypeFields(raw[i]) # {}
        => /\ i \notin RecordIds
           /\ \E j \in ErrorsOf(i) : WrongTypeFields(raw[i]) \subseteq IssuePaths(errors[j])

\* C13 (second half): a document whose pubDate is any parseable date, with a
\* valid title and description, is not rejected for pubDate.
ParseableDateAccepted ==
  loaded =>
    \A i \in DOMAIN raw :
      (IsText(raw[i].title) /\ IsText(raw[i].description) /\ IsParseableDate(raw[i].pubDate))
        => \A j \in ErrorsOf(i) : "pubDate" \notin IssuePaths(errors[j])

\* C13: a required field of the wrong type is rejected with an error naming
\* the document and the field, and a pubDate that is any parseable date is not
\* rejected.
C13_TypesChecked == WrongTypeRejected /\ ParseableDateAccepted


\* C14: for every accepted document, the record's title, description, pubDate
\* and lang equal the values of the front-matter.
C14_RoundTrip ==
  loaded =>
    \A j \in DOMAIN records :
      \A f \in {"title", "description", "pubDate", "lang"} :
        /\ f \in DOMAIN records[j].data
        /\ records[j].data[f] = raw[records[j].id][f]

\* an accepted document that carries all four fields
C14_Witness ==
  /\ loaded
  /\ Len(records) = 1
  /\ raw[1].lang = JSString("en")
  /\ raw[1].pubDate = JSDate("2024-01-01")
  /\ records[1].data.lang = JSString("en")
  /\ records[1].data.title = JSString("News Title")


\* C15: the accepted records appear in the order in which their documents
\* were discovered; the load never reorders them, by date or otherwise.
C15_DiscoveryOrderKept ==
  loaded =>
    \A j, k \in DOMAIN records : j < k => records[j].id < records[k].id

\* two accepted documents, the newer one discovered first, kept in that order
C15_Witness ==
  /\ loaded
  /\ Len(raw) = 2
  /\ raw[1].pubDate = JSDate("2025-01-10")
  /\ raw[2].pubDate = JSDate("2024-01-01")
  /\ Len(records) = 2
  /\ records[1].id = 1
  /\ records[1].data.pubDate = JSDate("2025-01-10")
  /\ records[2].id = 2


C17_DefaultLangSupported ==
  /\ defaultLang \in DOMAIN languages
  /\ defaultLang \in DOMAIN ui

\* the root path has resolved to the default language and its table was read
C17_Witness ==
  /\ url = <<"/">>
  /\ resolved = JSString(defaultLang)
  /\ tLang = JSString(defaultLang)
  /\ key = JSString("nav.home")
  /\ result = JSString(ui[defaultLang]["nav.home"])

\* C18: every key registered for the default language is registered for every
\* other supported language, so a lookup of a shipped key finds the key in
\* the table of the language asked for.
C18_KeysComplete ==
  /\ \A l \in SupportedLangs : DOMAIN ui[defaultLang] \subseteq DOMAIN ui[l]
  /\ Translated => key.val \in DOMAIN ui[tLang.val]

\* the last key of the zh table looked up in en
C18_Witness ==
  /\ tLang = JSString("en")
  /\ key = JSString("contact.phone")
  /\ result = JSString("Phone")

\* C19: the locale table is read-only: no call of getLangFromUrl,
\* useTranslations or t changes ui (languages and defaultLang are constants).
C19_TableReadOnly == [][ui' = ui]_vars

\* all three functions have been called and the table is the shipped one
C19_Witness ==
  /\ resolved # Undefined
  /\ tLang # Undefined
  /\ key # Undefined
  /\ ui = ShippedUi


(***************************************************************************)
(* Concurrent callers of the locale functions                              *)
(***************************************************************************)
MaxCallers == 2

Callers == 1..MaxCallers

\* the request paths and keys of the concurrent callers
ConcPaths == {p \in Pathnames : Len(p) <= 2}

ConcKeys == {"nav.home", "news.back"}

NewCall(p) ==
  [pc |-> "start", url |-> p, lang |-> Undefined, key |-> Undefined, result |-> Undefined]

\* CallGetLangFromUrl registering the default table under an unknown first segment
CallGetLangFromUrl_RegistersLang(c) ==
  /\ calls[c].pc = "start"
  /\ calls' = [calls EXCEPT ![c].pc = "resolved",
                            ![c].lang = getLangFromUrl(calls[c].url)]
  /\ LET lang == Split(calls[c].url)[2]
     IN  ui' = IF lang \in DOMAIN ui THEN ui ELSE (lang :> ui[defaultLang]) @@ ui
  /\ UNCHANGED <<url, resolved, tLang, key, result, contentVars>>

\* caller c: const lang = getLangFromUrl(url)
CallGetLangFromUrl(c) ==
  /\ calls[c].pc = "start"
  /\ calls' = [calls EXCEPT ![c].pc = "resolved",
                            ![c].lang = getLangFromUrl(calls[c].url)]
  /\ UNCHANGED <<ui, url, resolved, tLang, key, result, contentVars>>

\* caller c: const t = useTranslations(lang); lang is captured by the closure
CallUseTranslations(c) ==
  /\ calls[c].pc = "resolved"
  /\ calls' = [calls EXCEPT ![c].pc = "bound"]
  /\ UNCHANGED <<ui, url, resolved, tLang, key, result, contentVars>>

\* caller c: t(k)
CallT(c, k) ==
  /\ calls[c].pc = "bound"
  /\ calls' = [calls EXCEPT ![c].pc = "done",
                            ![c].key = JSString(k),
                            ![c].result = t(calls[c].lang.val, k)]
  /\ UNCHANGED <<ui, url, resolved, tLang, key, result, contentVars>>

InitConcurrent ==
  /\ ui = ShippedUi
  /\ url = <<"/">>
  /\ resolved = Undefined
  /\ tLang = Undefined
  /\ key = Undefined
  /\ result = Undefined
  /\ calls \in [Callers -> {NewCall(p) : p \in ConcPaths}]
  /\ ContentIdle

NextConcurrent ==
  \E c \in Callers :
    \/ CallGetLangFromUrl(c)
    \/ CallUseTranslations(c)
    \/ \E k \in ConcKeys : CallT(c, k)

SpecConcurrent == InitConcurrent /\ [][NextConcurrent]_vars

\* C20: in every interleaving of the callers' calls, each call returns what
\* it returns when run alone, that is, the function's value on the table the
\* process started with.
C20_CallsIndependent ==
  /\ ui = ShippedUi
  /\ \A c \in DOMAIN calls :
       /\ calls[c].pc # "start" => calls[c].lang = getLangFromUrl(calls[c].url)
       /\ calls[c].pc = "done"
            => calls[c].result = t(calls[c].lang.val, calls[c].key.val)

\* caller 2 has run to completion between two calls of caller 1
C20_Witness ==
  /\ calls[1].pc = "bound"
  /\ calls[1].url = <<"/", "fr">>
  /\ calls[1].lang = JSString("zh")
  /\ calls[2].pc = "done"
  /\ calls[2].url = <<"/", "en">>
  /\ calls[2].key = JSString("nav.home")
  /\ calls[2].result = JSString("Home")


(***************************************************************************)
(* Claims about the behaviour of the source                                *)
(***************************************************************************)
MissingEverywhere ==
  Translated /\ key.val \notin DOMAIN ui[tLang.val] /\ key.val \notin DOMAIN ui[defaultLang]

\* C21 (as claimed): a key missing from both the active and the default
\* language is returned itself, and no error is raised.
C21_MissingKeyReturnsKey ==
  MissingEverywhere => result = JSString(key.val)

\* C21 (amended): a key missing from both the active and the default language
\* raises no error and yields undefined, not the key (for a key named like a
\* member of Object.prototype, that inherited member).
C21_MissingKeyUndefined ==
  MissingEverywhere =>
    /\ result.kind # "throw"
    /\ result # JSString(key.val)
    /\ result = IF key.val \in ObjectPrototypeKeys THEN Builtin(key.val) ELSE Undefined

\* a key registered nowhere has been looked up
C21_Witness ==
  /\ ui = ("zh" :> <<>>) @@ ("en" :> <<>>)
  /\ tLang = JSString("en")
  /\ key = JSString("nav.home")
  /\ result = Undefined


\* C22: an otherwise valid news document validates with and without an image
\* string, and an image that is present is carried into the record.
C22_ImageCarried ==
  (loaded /\ collection.name = "news") =>
    /\ \A i \in DOMAIN raw : WellFormed(collection, raw[i]) => i \in RecordIds
    /\ \A j \in DOMAIN records :
         raw[records[j].id].image.kind = "string" =>
           /\ "image" \in DOMAIN records[j].data
           /\ records[j].data.image = raw[records[j].id].image

\* C23: every front-matter accepted by the news schema of part_001 is accepted
\* by the news schema of config.ts, and both outputs have the same title,
\* description, pubDate and lang.
C23_StrictRefinesLoose ==
  (loaded /\ collection = [config |-> "part_001", name |-> "news"]) =>
    \A j \in DOMAIN records :
      LET loose == safeParse(news, raw[records[j].id])
      IN  /\ loose.success
          /\ \A f \in {"title", "description", "pubDate", "lang"} :
               loose.data[f] = records[j].data[f]

\* the stricter schema has accepted a document with a lang and an image
C23_Witness ==
  /\ loaded
  /\ collection = [config |-> "part_001", name |-> "news"]
  /\ Len(records) = 1
  /\ records[1].data.lang = JSString("zh")
  /\ records[1].data.image = JSString("/images/launch.png")


\* C24: for every path and every key of the default-language table,
\* useTranslations(getLangFromUrl(url))(key) does not throw and returns a
\* non-empty string, whatever the first segment of the path is.
C24_CompositionSafe ==
  (resolved # Undefined /\ tLang = resolved /\ key # Undefined) =>
    /\ key.val \in DOMAIN ui[defaultLang]
    /\ result.kind = "string"
    /\ result.val # ""

\* a key has been looked up for a first segment that is no language of ui
C24_Witness ==
  /\ Split(url)[2] = "constructor"
  /\ tLang = JSString("constructor")
  /\ key = JSString("nav.about")
  /\ result = JSString(ui[defaultLang]["nav.about"])

\* C25: the resolved language depends only on the segment right after the
\* leading "/": every path with the same first segment resolves to the same
\* language, whatever its later segments are.
C25_OnlyFirstSegmentMatters ==
  (resolved # Undefined /\ tLang = Undefined) =>
    \A p \in Pathnames :
      Split(p)[2] = Split(url)[2] => getLangFromUrl(p) = resolved

\* a path with a language code in its second segment has been resolved
C25_Witness ==
  /\ url = <<"/", "about", "/", "en">>
  /\ resolved = JSString(defaultLang)
  /\ tLang = Undefined

LocalesOf(config) == {config.locales[n] : n \in DOMAIN config.locales}

C27_ShippedStringsNonEmpty ==
  /\ \A l \in SupportedLangs : \A k \in DOMAIN ui[l] : ui[l][k] # ""
  /\ (Translated /\ key.val \in DOMAIN ui[tLang.val])
       => /\ ToBoolean(Member(tLang.val, key.val))
          /\ result = JSString(ui[tLang.val][key.val])

\* a shipped key has been looked up in the English table
C27_Witness ==
  /\ tLang = JSString("en")
  /\ key = JSString("news.back")
  /\ result = JSString("Back to News")


(***************************************************************************)
(* The shipped news documents                                              *)
(***************************************************************************)
\* scalars of a YAML front-matter block, as written
Quoted(text) == [style |-> "quoted", text |-> text]

Plain(text) == [style |-> "plain", text |-> text]

Digits == {"0", "1", "2", "3", "4", "5", "6", "7", "8", "9"}

\* a plain scalar of the form yyyy-mm-dd is a YAML timestamp
IsYamlTimestamp(text) ==
  /\ Len(text) = 10
  /\ \A n \in 1..10 :
       IF n \in {5, 8} THEN SubSeq(text, n, n) = "-"
       ELSE SubSeq(text, n, n) \in Digits

\* the value a scalar is read as: quoted text is a string, a plain timestamp
\* a Date, an empty value null
YamlValue(scalar) ==
  IF scalar.style = "quoted" THEN JSString(scalar.text)
  ELSE IF scalar.text = "" THEN Null
  ELSE IF IsYamlTimestamp(scalar.text) THEN JSDate(scalar.text)
  ELSE JSString(scalar.text)

\* the data of a front-matter block: a key that is not written is undefined
FrontMatter(block) ==
  [k \in {"title", "description", "pubDate", "lang", "image"} |->
     IF k \in DOMAIN block THEN YamlValue(block[k]) ELSE Undefined]

\* tech-workshop-en.md with its pubDate written as quoted text
TechWorkshopEn_QuotedDate ==
  [title |-> Quoted("First Technical Workshop Successfully Held"),
   description |-> Quoted("The UOS project team held its first technical workshop to discuss the core technical architecture and implementation of the human-cyber-physical convergence operating system."),
   pubDate |-> Quoted("2025-01-10"),
   lang |-> Quoted("en")]

TechWorkshopEn ==
  [title |-> Quoted("First Technical Workshop Successfully Held"),
   description |-> Quoted("The UOS project team held its first technical workshop to discuss the core technical architecture and implementation of the human-cyber-physical convergence operating system."),
   pubDate |-> Plain("2025-01-10"),
   lang |-> Quoted("en")]

ProjectLaunchEn ==
  [title |-> Quoted("UOS Project Officially Launched"),
   description |-> Quoted("The Human-Cyber-Physical Convergence Operating System project for power information scenarios has been officially launched, with Nanjing University and industry partners working together to advance the project."),
   pubDate |-> Plain("2024-01-15"),
   lang |-> Quoted("en")]

StandardsProgressEn ==
  [title |-> Quoted("Significant Progress in Standards Development"),
   description |-> Quoted("The UOS project has made important progress in developing resource model standards and communication interaction standards, laying a foundation for ecosystem development."),
   pubDate |-> Plain("2025-06-10"),
   lang |-> Quoted("en")]

\* the other version of the workshop report
TechWorkshopEnUros ==
  [title |-> Quoted("First Technical Workshop Successfully Held"),
   description |-> Quoted("The UROS project team held its first technical workshop to discuss the core technical architecture and implementation of the human-cyber-physical convergence operating system."),
   pubDate |-> Plain("2024-03-20"),
   lang |-> Quoted("en")]

\* the other version of the launch report
ProjectLaunchEnUros ==
  [title |-> Quoted("UOS Project Officially Launched"),
   description |-> Quoted("The Human-Cyber-Physical Convergence Operating System project for power information scenarios has been officially launched, with Nanjing University and industry partners working together to advance the project."),
   pubDate |-> Plain("2024-12-22"),
   lang |-> Quoted("en")]

ShippedNews ==
  {FrontMatter(block) :
     block \in {TechWorkshopEn, ProjectLaunchEn, StandardsProgressEn,
                TechWorkshopEnUros, ProjectLaunchEnUros}}

NewsCollectionIds == {c \in CollectionIds : c.name = "news"}

\* the shipped documents, in any order of discovery
ShippedBatches ==
  {b \in SeqsUpTo(ShippedNews, Cardinality(ShippedNews)) :
     \A m, n \in DOMAIN b : m # n => b[m] # b[n]}

\* the load of the shipped news documents under either version of the schema
InitShipped ==
  /\ collection \in NewsCollectionIds
  /\ raw \in ShippedBatches
  /\ records = <<>>
  /\ errors = <<>>
  /\ loaded = FALSE
  /\ again = NotLoadedAgain
  /\ LocaleIdle

SpecShipped == InitShipped /\ [][NextLoad]_vars

\* C28: every shipped news document has a text title, a text description, a
\* date pubDate and a lang in {zh, en}, and is accepted by both versions of
\* the news schema: loading the shipped documents rejects none.
C28_ShippedNewsValid ==
  /\ \A d \in ShippedNews :
       /\ IsText(d.title)
       /\ IsText(d.description)
       /\ IsValidDate(d.pubDate)
       /\ d.lang.kind = "string" /\ d.lang.val \in {"zh", "en"}
       /\ safeParse(news, d).success
       /\ safeParse(newsCollection, d).success
  /\ loaded => (errors = <<>> /\ Len(records) = Len(raw))

\* the five shipped documents have been loaded under the stricter schema
C28_Witness ==
  /\ loaded
  /\ collection = [config |-> "part_001", name |-> "news"]
  /\ Len(raw) = 5
  /\ Len(records) = 5
  /\ \E j \in DOMAIN records : records[j].data.pubDate = JSDate("2025-01-10")

====
